---- MODULE Spec2Model ----
(***************************************************************************)
(* Model of the ship game of main.py: run() builds a sparse board from the *)
(* initial ship list and applies the turns of a lazy turn source, one      *)
(* process_turn call per turn, until the source is exhausted or a turn     *)
(* raises an InvalidTurn exception.                                        *)
(***************************************************************************)
EXTENDS Integers, Sequences, FiniteSets, TLC

\* ------------------------------------------------------------------ bounds
\* board_size argument of run()
BoardSize == 2
\* longest initial ship list handed to run()
MaxShips == 2
\* longest turn source
MaxTurns == 2
\* longest action string of a MovementTurn in a run of several turns
MaxActions == 2
\* longest action string of the MovementTurn of a one-turn run
MaxLongActions == 4
\* longest initial ship list of the runs followed to their end
MaxFairShips == 1
\* longest line of the lines drawn freely from LineChars
MaxLineLen == 6
\* longest run of blanks put into one slot of a well-formed turn line
MaxSpace == 2
\* longest coordinate, in digits, of a well-formed turn line
MaxDigits == 2

\* ------------------------------------------------------- direction tables
Directions == {"N", "S", "E", "W"}

\* the table with the row of N repeated for S
DIRECTION_TRANSITIONS_CopiedRow ==
    [d \in Directions |->
        CASE d = "N" -> [L |-> "W", R |-> "E"]
          [] d = "S" -> [L |-> "W", R |-> "E"]
          [] d = "E" -> [L |-> "N", R |-> "S"]
          [] d = "W" -> [L |-> "S", R |-> "N"]]

DIRECTION_TRANSITIONS ==
    [d \in Directions |->
        CASE d = "N" -> [L |-> "W", R |-> "E"]
          [] d = "S" -> [L |-> "E", R |-> "W"]
          [] d = "E" -> [L |-> "N", R |-> "S"]
          [] d = "W" -> [L |-> "S", R |-> "N"]]

\* the table with South advancing like North
DIRECTION_DELTAS_SouthUp ==
    [d \in Directions |->
        CASE d = "N" -> <<0, 1>>
          [] d = "S" -> <<0, 1>>
          [] d = "W" -> <<-1, 0>>
          [] d = "E" -> <<1, 0>>]

DIRECTION_DELTAS ==
    [d \in Directions |->
        CASE d = "N" -> <<0, 1>>
          [] d = "S" -> <<0, -1>>
          [] d = "W" -> <<-1, 0>>
          [] d = "E" -> <<1, 0>>]

\* ------------------------------------------------------------ input sets
\* coordinates the \d+ groups of the reader can deliver: non-negative, and
\* not limited by the board size (one value beyond the board is kept)
InputCoords == 0 .. BoardSize

\* Ship(x, y, direction, alive)
Ships == [x : InputCoords, y : InputCoords, direction : Directions, alive : BOOLEAN]

\* the initial ship lists of n ships
ShipLists(n) == [1 .. n -> Ships]

ActionStrings == UNION {[1 .. n -> {"L", "R", "M"}] : n \in 0 .. MaxActions}

MovementTurns ==
    [type : {"MovementTurn"}, ship_x : InputCoords, ship_y : InputCoords,
     actions : ActionStrings]

LongActionStrings == UNION {[1 .. n -> {"L", "R", "M"}] : n \in 0 .. MaxLongActions}

LongMovementTurns ==
    [type : {"MovementTurn"}, ship_x : InputCoords, ship_y : InputCoords,
     actions : LongActionStrings]

ShootingTurns ==
    [type : {"ShootingTurn"}, target_x : InputCoords, target_y : InputCoords]

\* an object that is neither a MovementTurn nor a ShootingTurn
OtherTurn == [type |-> "Other"]

NoTurn == [type |-> "NoTurn"]

\* ------------------------------------------------------------- the board
\* dict (x, y) -> (direction, alive); a missing key is a coordinate outside
\* the domain of the function
BoardGet(b, location) ==
    IF location \in DOMAIN b THEN b[location] ELSE <<>>

BoardDel(b, location) ==
    [l \in (DOMAIN b) \ {location} |-> b[l]]

BoardSet(b, location, ship) ==
    [l \in (DOMAIN b) \cup {location} |-> IF l = location THEN ship ELSE b[l]]

EmptyBoard == [l \in {} |-> <<>>]

\* the dict comprehension of run(): a later ship on the same key replaces
\* an earlier one
RECURSIVE BuildBoard(_)
BuildBoard(ships) ==
    IF ships = <<>> THEN EmptyBoard
    ELSE LET n == Len(ships)
             s == ships[n]
         IN  BoardSet(BuildBoard(SubSeq(ships, 1, n - 1)),
                      <<s.x, s.y>>, <<s.direction, s.alive>>)

\* ------------------------------------------------------------ the results
Action(type, args) == [kind |-> "action", type |-> type, args |-> args]
Raise(type, args) == [kind |-> "raise", type |-> type, args |-> args]
NoResult == [kind |-> "none", type |-> "none", args |-> <<>>]

\* ------------------------------------------------------------ process_move
\* the loop body with the Right column of the table used for both rotations
ApplyAction_AlwaysRight(state, action) ==
    IF action \in {"L", "R"}
    THEN [location |-> state.location,
          direction |-> DIRECTION_TRANSITIONS[state.direction]["R"]]
    ELSE LET delta == DIRECTION_DELTAS[state.direction]
         IN  [location |-> <<state.location[1] + delta[1],
                             state.location[2] + delta[2]>>,
              direction |-> state.direction]

\* one pass of the loop body over the actions of a MovementTurn
ApplyAction(state, action) ==
    IF action \in {"L", "R"}
    THEN [location |-> state.location,
          direction |-> DIRECTION_TRANSITIONS[state.direction][action]]
    ELSE LET delta == DIRECTION_DELTAS[state.direction]
         IN  [location |-> <<state.location[1] + delta[1],
                             state.location[2] + delta[2]>>,
              direction |-> state.direction]

\* the for loop: the actions applied left to right
RECURSIVE FoldActions(_, _)
FoldActions(state, actions) ==
    IF actions = <<>> THEN state
    ELSE FoldActions(ApplyAction(state, Head(actions)), Tail(actions))

\* the bounds check with > for >=
OutsideBoard_OffByOne(board_size, location) ==
    \/ location[1] < 0
    \/ location[2] < 0
    \/ location[1] > board_size
    \/ location[2] > board_size

OutsideBoard(board_size, location) ==
    \/ location[1] < 0
    \/ location[2] < 0
    \/ location[1] >= board_size
    \/ location[2] >= board_size

\* "if not ship": board.get() found no entry
NoShip(ship) == ship = <<>>

\* the check of the alive flag left out
Sunk_Unchecked(ship) == FALSE

\* the alive flag tested without the "not"
Sunk_Inverted(ship) == ship[2]

\* "if not ship[1]": the ship is already sunk
Sunk(ship) == ~ship[2]

\* the del statement left out
Remove_Kept(b, location) == b

\* "del board[location]"
Remove(b, location) == BoardDel(b, location)

\* the target check looking at alive ships only
Occupied_AliveOnly(b, location) ==
    BoardGet(b, location) # <<>> /\ BoardGet(b, location)[2]

\* "if board.get(location)": the final location holds a ship
Occupied(b, location) == BoardGet(b, location) # <<>>

\* the ship put back under the key (y, x)
Reinsert_Transposed(b, location, direction) ==
    BoardSet(b, <<location[2], location[1]>>, <<direction, TRUE>>)

\* "board[location] = (direction, True)"
Reinsert(b, location, direction) == BoardSet(b, location, <<direction, TRUE>>)

\* the exception given the coordinates as (y, x)
InvalidTurn_Transposed(type, tn, x, y) == Raise(type, <<tn, y, x>>)

\* an InvalidTurn exception with its arguments
InvalidTurn(type, tn, x, y) == Raise(type, <<tn, x, y>>)

\* the del statement moved above the two checks
Untouched_Removed(b, location) == BoardDel(b, location)

\* the board when NoShipAtLocation or MovingSunkShip is raised: the raise
\* comes before "del board[location]"
Untouched(b, location) == b

\* the board and the outcome process_move leaves behind
process_move(board_size, b, tn, t) ==
    LET location == <<t.ship_x, t.ship_y>>
        ship == BoardGet(b, location)
    IN  IF NoShip(ship)
        THEN [board |-> Untouched(b, location),
              result |-> InvalidTurn("NoShipAtLocation", tn, t.ship_x, t.ship_y)]
        ELSE IF Sunk(ship)
        THEN [board |-> Untouched(b, location),
              result |-> InvalidTurn("MovingSunkShip", tn, t.ship_x, t.ship_y)]
        ELSE LET removed == Remove(b, location)
                 final == FoldActions([location |-> location, direction |-> ship[1]],
                                      t.actions)
                 loc == final.location
             IN  IF OutsideBoard(board_size, loc)
                 THEN [board |-> removed,
                       result |-> InvalidTurn("MoveOutsideBoard", tn, loc[1], loc[2])]
                 ELSE IF Occupied(removed, loc)
                 THEN [board |-> removed,
                       result |-> InvalidTurn("ShipAtMoveTarget", tn, loc[1], loc[2])]
                 ELSE [board |-> Reinsert(removed, loc, final.direction),
                       result |-> Action("MovedShip",
                                         <<location[1], location[2], ship[1],
                                           loc[1], loc[2], final.direction>>)]

\* ----------------------------------------------------------- process_shoot
\* the action given the coordinates as (y, x)
ShotAction_Transposed(type, x, y) == Action(type, <<y, x>>)

\* ShotNoTarget, SunkAliveShip or SunkDeadShip with the target coordinates
ShotAction(type, x, y) == Action(type, <<x, y>>)

\* the shot ship deleted from the board
Sink_Deleted(b, target, ship) == BoardDel(b, target)

\* the alive flag flipped instead of cleared
Sink_Flipped(b, target, ship) == BoardSet(b, target, <<ship[1], ~ship[2]>>)

\* "board[(turn.target_x, turn.target_y)] = (ship[0], False)"
Sink(b, target, ship) == BoardSet(b, target, <<ship[1], FALSE>>)

process_shoot(board_size, b, tn, t) ==
    LET target == <<t.target_x, t.target_y>>
        ship == BoardGet(b, target)
    IN  IF ship = <<>>
        THEN [board |-> b,
              result |-> ShotAction("ShotNoTarget", t.target_x, t.target_y)]
        ELSE LET was_alive == ship[2]
                 shot == Sink(b, target, ship)
             IN  IF was_alive
                 THEN [board |-> shot,
                       result |-> ShotAction("SunkAliveShip", t.target_x, t.target_y)]
                 ELSE [board |-> shot,
                       result |-> ShotAction("SunkDeadShip", t.target_x, t.target_y)]

\* ------------------------------------------------------------ process_turn
process_turn(board_size, b, tn, t) ==
    IF t.type = "MovementTurn" THEN process_move(board_size, b, tn, t)
    ELSE IF t.type = "ShootingTurn" THEN process_shoot(board_size, b, tn, t)
    ELSE [board |-> b, result |-> Raise("InvalidTurnType", <<>>)]

\* -------------------------------------------------------------- FileReader
\* a line is a sequence of characters; the classes of TURN_REGEX
Whitespace == {" "}

Digit == {"0", "1", "2", "3", "4", "5", "6", "7", "8", "9"}

ActionLetters == {"L", "R", "M"}

DigitValue ==
    [c \in Digit |->
        CASE c = "0" -> 0 [] c = "1" -> 1 [] c = "2" -> 2 [] c = "3" -> 3
          [] c = "4" -> 4 [] c = "5" -> 5 [] c = "6" -> 6 [] c = "7" -> 7
          [] c = "8" -> 8 [] c = "9" -> 9]

\* int() of a run of digits
RECURSIVE int(_)
int(digits) ==
    IF digits = <<>> THEN 0
    ELSE 10 * int(SubSeq(digits, 1, Len(digits) - 1)) + DigitValue[digits[Len(digits)]]

\* str.strip(): the line without its leading and trailing whitespace
strip(l) ==
    LET solid == {k \in 1 .. Len(l) : l[k] \notin Whitespace}
    IN  IF solid = {} THEN <<>>
        ELSE SubSeq(l, CHOOSE k \in solid : \A m \in solid : k <= m,
                       CHOOSE k \in solid : \A m \in solid : m <= k)

\* a greedy class* from position i: the position after the longest run of
\* characters of the class (the classes that meet in TURN_REGEX are
\* disjoint, so the longest run is the only one that can match)
Run(l, i, class) ==
    CHOOSE j \in i .. Len(l) + 1 :
        /\ \A k \in i .. j - 1 : l[k] \in class
        /\ j = Len(l) + 1 \/ l[j] \notin class

\* a pattern without \s*
Spaces_None(l, i) == i

\* \s* from position i
Spaces(l, i) == Run(l, i, Whitespace)

\* TURN_REGEX tried at position i of the line: the positions where its
\* parts end
XFrom(l, i) == Spaces(l, i + 1)
XTo(l, i) == Run(l, XFrom(l, i), Digit)
Comma(l, i) == Spaces(l, XTo(l, i))
YFrom(l, i) == Spaces(l, Comma(l, i) + 1)
YTo(l, i) == Run(l, YFrom(l, i), Digit)
Close(l, i) == Spaces(l, YTo(l, i))
ActionsFrom(l, i) == Spaces(l, Close(l, i) + 1)
ActionsTo(l, i) == Run(l, ActionsFrom(l, i), ActionLetters)

MatchAt(l, i) ==
    /\ l[i] = "("
    /\ XTo(l, i) > XFrom(l, i)
    /\ Comma(l, i) <= Len(l)
    /\ l[Comma(l, i)] = ","
    /\ YTo(l, i) > YFrom(l, i)
    /\ Close(l, i) <= Len(l)
    /\ l[Close(l, i)] = ")"

None == [none |-> TRUE]

\* TURN_REGEX.search(l): the groups of the leftmost match, or None
TURN_REGEX_search(l) ==
    LET starts == {i \in 1 .. Len(l) : MatchAt(l, i)}
    IN  IF starts = {} THEN None
        ELSE LET i == CHOOSE k \in starts : \A m \in starts : k <= m
             IN  [x_coord |-> SubSeq(l, XFrom(l, i), XTo(l, i) - 1),
                  y_coord |-> SubSeq(l, YFrom(l, i), YTo(l, i) - 1),
                  actions |-> SubSeq(l, ActionsFrom(l, i), ActionsTo(l, i) - 1)]

\* make_turn_from_line: match.group() on None raises AttributeError
make_turn_from_line(l) ==
    LET match == TURN_REGEX_search(strip(l))
    IN  IF match = None THEN Raise("AttributeError", <<>>)
        ELSE IF match.actions # <<>>
             THEN [type |-> "MovementTurn", ship_x |-> int(match.x_coord),
                   ship_y |-> int(match.y_coord), actions |-> match.actions]
             ELSE [type |-> "ShootingTurn", target_x |-> int(match.x_coord),
                   target_y |-> int(match.y_coord)]

\* the characters the lines of the turn file are drawn from
LineChars == {"(", ")", ",", "0", "1", " ", "L", "M", "Q"}

Blanks(n) == [k \in 1 .. n |-> " "]

DigitStrings == UNION {[1 .. n -> {"0", "1"}] : n \in 1 .. MaxDigits}

\* the line "(X,Y)A" with pad[1] .. pad[6] blanks before "(", after "(",
\* before ",", after ",", before ")" and after ")"
Spaced(X, Y, A, pad) ==
    Blanks(pad[1]) \o <<"(">> \o Blanks(pad[2]) \o X \o Blanks(pad[3]) \o <<",">>
        \o Blanks(pad[4]) \o Y \o Blanks(pad[5]) \o <<")">> \o Blanks(pad[6]) \o A

\* ---------------------------------------------------------------- state
VARIABLES
    board,        \* the dict of run()
    prev,         \* the dict as it was when the last turn was handed over
    turn_number,  \* index enumerate() gives to the turn being processed
    turn,         \* the turn last handed to process_turn
    result,       \* what that call returned or raised
    status,       \* "running", "returned" (source exhausted), "raised"
    line          \* the turn line of the file, <<>> when the turns are a list

vars == <<board, prev, turn_number, turn, result, status, line>>

Init ==
    /\ \E n \in 0 .. MaxShips :
          \E initial_ships \in ShipLists(n) : board = BuildBoard(initial_ships)
    /\ prev = board
    /\ turn_number = 0
    /\ turn = NoTurn
    /\ result = NoResult
    /\ status = "running"
    /\ line = <<>>

\* ---------------------------------------------------------------- run()
\* the exception caught and dropped inside the loop
Propagates_Swallowed(r) == FALSE

\* an exception raised by process_turn is not caught: it leaves the loop
Propagates(r) == r.kind = "raise"

\* one iteration of the for loop of run(): the source yields a turn, which
\* process_turn applies; an exception leaves the loop and run().  The
\* optional actionList only collects the returned actions: result holds the
\* last of them.
Step(t) ==
    /\ status = "running"
    /\ turn_number < MaxTurns
    /\ \E out \in {process_turn(BoardSize, board, turn_number, t)} :
           /\ board' = out.board
           /\ prev' = board
           /\ result' = out.result
           /\ turn' = t
           /\ line' = line
           /\ IF Propagates(out.result)
              THEN /\ status' = "raised"
                   /\ turn_number' = turn_number
              ELSE /\ status' = "running"
                   /\ turn_number' = turn_number + 1

MoveStep == \E t \in MovementTurns : Step(t)

ShootStep == \E t \in ShootingTurns : Step(t)

OtherStep == Step(OtherTurn)

\* the loop waiting for a turn after the last one
Return_Never == FALSE

\* the turn source is exhausted: run() returns the board
Return ==
    /\ status = "running"
    /\ status' = "returned"
    /\ UNCHANGED <<board, prev, turn_number, turn, result, line>>

Next == MoveStep \/ ShootStep \/ OtherStep \/ Return

Spec == Init /\ [][Next]_vars

\* ------------------------------------------------ run() on a round trip
\* the turn sources of a round trip: one MovementTurn that advances, turns
\* half round and advances, or a MovementTurn that advances followed by a
\* MovementTurn that turns half round and advances
TripTurns(strings) ==
    [type : {"MovementTurn"}, ship_x : InputCoords, ship_y : InputCoords,
     actions : strings]

TripOut ==
    /\ turn = NoTurn
    /\ \E t \in TripTurns({<<"M">>, <<"M", "L", "L", "M">>, <<"M", "R", "R", "M">>}) :
          Step(t)

TripBack ==
    /\ turn # NoTurn
    /\ turn.actions = <<"M">>
    /\ \E t \in TripTurns({<<"L", "L", "M">>, <<"R", "R", "M">>}) : Step(t)

TripNext == TripOut \/ TripBack \/ Return

TripSpec == Init /\ [][TripNext]_vars

\* the for loop of run() keeps going: while the run has neither returned
\* nor raised, its next step is taken
FairInit ==
    /\ \E n \in 0 .. MaxFairShips :
          \E initial_ships \in ShipLists(n) : board = BuildBoard(initial_ships)
    /\ prev = board
    /\ turn_number = 0
    /\ turn = NoTurn
    /\ result = NoResult
    /\ status = "running"
    /\ line = <<>>

FairSpec == FairInit /\ [][Next]_vars /\ WF_vars(Next)

\* ------------------------------------------------- run() on a single move
\* run() with a source of one MovementTurn whose action string has up to
\* MaxLongActions letters
LongMove ==
    /\ turn = NoTurn
    /\ \E t \in LongMovementTurns : Step(t)

MoveNext == LongMove \/ Return

MoveSpec == Init /\ [][MoveNext]_vars

\* ------------------------------------------- run() on the turns of a file
\* a file with an empty fleet and one turn line: any line of up to
\* MaxLineLen characters, or a well-formed line with up to MaxSpace blanks
\* in each slot
ParseInit ==
    /\ board = EmptyBoard
    /\ prev = board
    /\ turn_number = 0
    /\ turn = NoTurn
    /\ result = NoResult
    /\ status = "running"
    /\ \/ \E n \in 0 .. MaxLineLen : line \in [1 .. n -> LineChars]
       \/ \E X \in DigitStrings : \E Y \in DigitStrings : \E A \in ActionStrings :
             \E pad \in [1 .. 6 -> 0 .. MaxSpace] : line = Spaced(X, Y, A, pad)

\* turns() yields make_turn_from_line(line.strip()) to the loop of run();
\* an exception of the generator leaves the loop like one of process_turn
ReadLine ==
    /\ status = "running"
    /\ turn = NoTurn
    /\ \E t \in {make_turn_from_line(strip(line))} :
          IF t.type = "AttributeError"
          THEN /\ status' = "raised"
               /\ result' = t
               /\ prev' = board
               /\ UNCHANGED <<board, turn_number, turn, line>>
          ELSE Step(t)

\* the generator is exhausted after the line
EndOfFile == turn # NoTurn /\ Return

ParseNext == ReadLine \/ EndOfFile

ParseSpec == ParseInit /\ [][ParseNext]_vars

\* ======================================================================
\* Properties
\* ======================================================================
InBounds(l) == 0 <= l[1] /\ l[1] < BoardSize /\ 0 <= l[2] /\ l[2] < BoardSize

IsMove == turn.type = "MovementTurn"

\* the coordinate a MovementTurn is addressed to
Start == <<turn.ship_x, turn.ship_y>>

\* the last turn was a MovementTurn addressed to an alive ship
MovedAlive == IsMove /\ Start \in DOMAIN prev /\ prev[Start][2]

\* the last turn was a MovementTurn addressed to a sunk ship
MovedSunk == IsMove /\ Start \in DOMAIN prev /\ ~prev[Start][2]

\* C1: in every board state of a run every occupied coordinate lies inside
\* [0, board_size) on both axes (one ship per coordinate is what a dict
\* gives).  run() copies the initial ship list into the dict unchecked.
C1_AllShipsInBounds == \A l \in DOMAIN board : InBounds(l)

\* C2: sinking is irreversible: a coordinate that held a not-alive ship
\* before a turn holds the same not-alive ship, with the same heading,
\* after it, whether the turn was a move or a shot and whether it failed.
C2_SunkStaysSunk ==
    \A l \in DOMAIN prev :
        ~prev[l][2] => l \in DOMAIN board /\ board[l] = prev[l]

\* a sunk ship was ordered to move, or was the target of another ship's
\* move, or was shot again
C2_Witness ==
    /\ turn_number >= 1
    /\ \E l \in DOMAIN prev :
        /\ ~prev[l][2]
        /\ \/ result = Raise("ShipAtMoveTarget", <<turn_number, l[1], l[2]>>)
           \/ result = Raise("MovingSunkShip", <<turn_number, l[1], l[2]>>)

Final == FoldActions([location |-> Start, direction |-> prev[Start][1]], turn.actions)

\* the location reached after the first n actions of the last turn
Along(n) ==
    FoldActions([location |-> Start, direction |-> prev[Start][1]],
                SubSeq(turn.actions, 1, n)).location

\* the ships other than the one ordered to move
Others == (DOMAIN prev) \ {Start}

\* C4: a MovementTurn addressed to an alive ship whose final coordinate is
\* in bounds and holds no other ship deletes the entry at the start
\* coordinate, inserts (final heading, alive) at the final coordinate,
\* leaves every other entry as it was and returns MovedShip(start x,
\* start y, start heading, final x, final y, final heading).
C4_SuccessfulMove ==
    (MovedAlive /\ InBounds(Final.location) /\ Final.location \notin Others) =>
        /\ DOMAIN board = Others \cup {Final.location}
        /\ board[Final.location] = <<Final.direction, TRUE>>
        /\ \A l \in Others : board[l] = prev[l]
        /\ result = Action("MovedShip",
                           <<Start[1], Start[2], prev[Start][1],
                             Final.location[1], Final.location[2], Final.direction>>)
        /\ status # "raised"

\* a ship moved to another cell with another heading while a second ship
\* stayed where it was
C4_Witness ==
    /\ MovedAlive
    /\ result.type = "MovedShip"
    /\ Final.location # Start
    /\ Final.direction # prev[Start][1]
    /\ Others # {}

\* the heading reached from d by the rotations among the first n actions:
\* Left is the cycle N -> W -> S -> E -> N, Right its inverse
LeftCycle == <<"N", "W", "S", "E">>

HeadingAfter(d, actions, n) ==
    LET i == CHOOSE k \in 1 .. 4 : LeftCycle[k] = d
        lefts == Cardinality({j \in 1 .. n : actions[j] = "L"})
        rights == Cardinality({j \in 1 .. n : actions[j] = "R"})
    IN  LeftCycle[((i - 1 + lefts + 3 * rights) % 4) + 1]

\* the number of M actions taken while heading d
Advances(d0, actions, d) ==
    Cardinality({j \in 1 .. Len(actions) :
                    actions[j] = "M" /\ HeadingAfter(d0, actions, j - 1) = d})

\* C5: the final coordinate and heading of a move are the left-to-right
\* fold of the actions: L and R only turn the heading, every M advances by
\* one cell in the heading held at that point of the sequence (N: y+1,
\* S: y-1, E: x+1, W: x-1).
C5_FoldOfActions ==
    MovedAlive =>
        LET d0 == prev[Start][1]
            a == turn.actions
            fx == Start[1] + Advances(d0, a, "E") - Advances(d0, a, "W")
            fy == Start[2] + Advances(d0, a, "N") - Advances(d0, a, "S")
            fd == HeadingAfter(d0, a, Len(a))
        IN  /\ result.type = "MovedShip" =>
                /\ result.args[4] = fx
                /\ result.args[5] = fy
                /\ result.args[6] = fd
                /\ board[<<fx, fy>>] = <<fd, TRUE>>
            /\ result.type \in {"MoveOutsideBoard", "ShipAtMoveTarget"} =>
                /\ result.args[2] = fx
                /\ result.args[3] = fy
            /\ result.type \in {"MovedShip", "MoveOutsideBoard", "ShipAtMoveTarget"}

\* a ship advanced, turned and advanced again: it ends on another row and
\* another column than it started
C5_Witness ==
    /\ MovedAlive
    /\ result.type = "MovedShip"
    /\ result.args[4] # result.args[1]
    /\ result.args[5] # result.args[2]
    /\ result.args[6] # result.args[3]

\* C6: a MovementTurn addressed to an alive ship raises
\* MoveOutsideBoard(turn_number, final x, final y) exactly when the final
\* coordinate is outside [0, board_size) on an axis; positions passed on
\* the way are not checked.
C6_OutsideBoardIffFinalOutside ==
    MovedAlive =>
        /\ ~InBounds(Final.location) =>
              /\ result = Raise("MoveOutsideBoard",
                                <<turn_number, Final.location[1], Final.location[2]>>)
              /\ status = "raised"
        /\ InBounds(Final.location) => result.type # "MoveOutsideBoard"

\* a ship left the board on its way and came back: the move succeeded
C6_Witness ==
    /\ MovedAlive
    /\ result.type = "MovedShip"
    /\ \E n \in 1 .. Len(turn.actions) : ~InBounds(Along(n))

\* C7: a MovementTurn addressed to an alive ship whose final coordinate is
\* in bounds raises ShipAtMoveTarget(turn_number, final x, final y) exactly
\* when another ship, alive or sunk, holds the final coordinate; ships on
\* cells passed on the way and the vacated start cell do not matter.
C7_TargetOccupiedIffOtherShip ==
    (MovedAlive /\ InBounds(Final.location)) =>
        /\ Final.location \in Others =>
              /\ result = Raise("ShipAtMoveTarget",
                                <<turn_number, Final.location[1], Final.location[2]>>)
              /\ status = "raised"
        /\ Final.location \notin Others => result.type = "MovedShip"

\* a ship passed over the cell of another ship and ended on its own start
\* cell: the move succeeded
C7_Witness ==
    /\ MovedAlive
    /\ result.type = "MovedShip"
    /\ Final.location = Start
    /\ \E n \in 1 .. Len(turn.actions) : Along(n) \in Others

\* C8: when a move fails with MoveOutsideBoard or ShipAtMoveTarget the ship
\* is not put back: the board has lost the entry at the start coordinate,
\* has gained none, and every other entry is as it was.
C8_FailedMoveLosesShip ==
    (IsMove /\ result.type \in {"MoveOutsideBoard", "ShipAtMoveTarget"}) =>
        /\ Start \in DOMAIN prev
        /\ DOMAIN board = (DOMAIN prev) \ {Start}
        /\ \A l \in DOMAIN board : board[l] = prev[l]
        /\ Cardinality(DOMAIN board) = Cardinality(DOMAIN prev) - 1

\* the second turn of a run moved a ship onto another one, the first turn
\* having been applied: one ship is left
C8_Witness ==
    /\ IsMove
    /\ turn_number = 1
    /\ result.type = "ShipAtMoveTarget"
    /\ Cardinality(DOMAIN prev) = 2
    /\ Cardinality(DOMAIN board) = 1

\* C9: a MovementTurn addressed to a coordinate without a ship raises
\* NoShipAtLocation(turn_number, x, y), whatever its actions are.
C9_NoShipAtLocation ==
    (IsMove /\ Start \notin DOMAIN prev) =>
        /\ result = Raise("NoShipAtLocation", <<turn_number, turn.ship_x, turn.ship_y>>)
        /\ status = "raised"

\* the second turn of a run ordered an empty cell with x # y to move, with
\* ships elsewhere on the board
C9_Witness ==
    /\ IsMove
    /\ Start \notin DOMAIN prev
    /\ turn_number = 1
    /\ turn.ship_x # turn.ship_y
    /\ turn.actions # <<>>
    /\ prev # EmptyBoard
    /\ result.type = "NoShipAtLocation"

\* C10: a MovementTurn addressed to a not-alive ship raises
\* MovingSunkShip(turn_number, x, y), whatever its actions are, also when
\* they would end outside the board or on another ship.
C10_MovingSunkShip ==
    MovedSunk =>
        /\ result = Raise("MovingSunkShip", <<turn_number, turn.ship_x, turn.ship_y>>)
        /\ status = "raised"

\* the second turn of a run ordered a sunk ship to move, with actions that
\* end on another ship
C10_Witness ==
    /\ MovedSunk
    /\ turn_number = 1
    /\ turn.ship_x # turn.ship_y
    /\ Final.location \in Others
    /\ result.type = "MovingSunkShip"

IsShot == turn.type = "ShootingTurn"

\* the coordinate a ShootingTurn is aimed at
Target == <<turn.target_x, turn.target_y>>

\* C11: a ShootingTurn at a coordinate without a ship returns
\* ShotNoTarget(x, y) with the coordinates asked for and leaves the whole
\* board as it was.
C11_ShotNoTarget ==
    (IsShot /\ Target \notin DOMAIN prev) =>
        /\ result = Action("ShotNoTarget", <<turn.target_x, turn.target_y>>)
        /\ board = prev
        /\ status # "raised"

\* the second turn of a run shot at an empty cell with x # y next to ships
C11_Witness ==
    /\ IsShot
    /\ Target \notin DOMAIN prev
    /\ turn.target_x # turn.target_y
    /\ turn_number = 2
    /\ Cardinality(DOMAIN prev) = 2
    /\ result.type = "ShotNoTarget"

\* C12: a ShootingTurn at an alive ship returns SunkAliveShip(x, y) and
\* changes the board at that coordinate only: the entry keeps its heading
\* and is not alive, the other entries and the set of occupied coordinates
\* are as before.
C12_SunkAliveShip ==
    (IsShot /\ Target \in DOMAIN prev /\ prev[Target][2]) =>
        /\ result = Action("SunkAliveShip", <<turn.target_x, turn.target_y>>)
        /\ DOMAIN board = DOMAIN prev
        /\ board[Target] = <<prev[Target][1], FALSE>>
        /\ \A l \in (DOMAIN prev) \ {Target} : board[l] = prev[l]
        /\ status # "raised"

\* the second turn of a run sank one of two ships
C12_Witness ==
    /\ IsShot
    /\ Target \in DOMAIN prev
    /\ prev[Target][2]
    /\ turn.target_x # turn.target_y
    /\ turn_number = 2
    /\ Cardinality(DOMAIN prev) = 2
    /\ result.type = "SunkAliveShip"

\* C13: a ShootingTurn at a not-alive ship returns SunkDeadShip(x, y) and
\* leaves the board as it was, so every further shot at it does the same.
C13_SunkDeadShip ==
    (IsShot /\ Target \in DOMAIN prev /\ ~prev[Target][2]) =>
        /\ result = Action("SunkDeadShip", <<turn.target_x, turn.target_y>>)
        /\ board = prev
        /\ status # "raised"

\* the second turn of a run shot at a sunk ship, which is left sunk
C13_Witness ==
    /\ IsShot
    /\ Target \in DOMAIN prev
    /\ ~prev[Target][2]
    /\ turn.target_x # turn.target_y
    /\ turn_number = 2
    /\ result.type = "SunkDeadShip"
    /\ board[Target] = prev[Target]

Terminated == status \in {"returned", "raised"}

\* C14: on a finite turn source run() ends, and in one of two ways only:
\* it returns the board after every turn of the source was applied, or it
\* raises the failure of the first invalid turn; an invalid turn is never
\* skipped, and nothing happens after the end.
C14_RunTerminates ==
    /\ <>Terminated
    /\ [](status = "returned" => result.kind # "raise")
    /\ [](result.kind = "raise" <=> status = "raised")
    /\ [][~Terminated]_vars

\* a run returned the board after its two turns were applied
C14_Witness ==
    /\ status = "returned"
    /\ turn_number = MaxTurns
    /\ result.kind = "action"
    /\ board # prev

\* the heading a quarter turn to the left of each heading, and the heading
\* opposite to each heading
LeftOf == [N |-> "W", W |-> "S", S |-> "E", E |-> "N"]

Opposite == [N |-> "S", S |-> "N", E |-> "W", W |-> "E"]

\* C15: the rotation table is total over the 4 headings and the 2 ops;
\* Left is the cycle N -> W -> S -> E -> N and Right its inverse: a ship
\* ordered L ends a quarter turn to the left, a ship ordered R ends on the
\* heading whose left is the start heading, and ships ordered LR, RL, LLLL
\* or RRRR end on the heading they started with.
C15_RotationTable ==
    /\ \A d \in Directions : \A op \in {"L", "R"} :
          DIRECTION_TRANSITIONS[d][op] \in Directions
    /\ (MovedAlive /\ InBounds(Start)) =>
          LET d == prev[Start][1]
              a == turn.actions
          IN  /\ (\A j \in 1 .. Len(a) : a[j] # "M") => result.type = "MovedShip"
              /\ a = <<"L">> => result.args[6] = LeftOf[d]
              /\ a = <<"R">> => LeftOf[result.args[6]] = d
              /\ a \in {<<"L", "R">>, <<"R", "L">>, <<"L", "L", "L", "L">>,
                        <<"R", "R", "R", "R">>} => result.args[6] = d

\* a ship heading South turned four times to the left and heads South
C15_Witness ==
    /\ MovedAlive
    /\ prev[Start][1] = "S"
    /\ turn.actions = <<"L", "L", "L", "L">>
    /\ result.type = "MovedShip"
    /\ result.args[6] = "S"

\* the last turn turned half round and advanced
HalfTurnBack == IsMove /\ turn.actions \in {<<"L", "L", "M">>, <<"R", "R", "M">>}

\* C16: an alive ship that advances with M, turns half round with LL or RR
\* and advances with M again is back on its original coordinate with the
\* opposite heading, when the moves are not obstructed: in one turn, and in
\* two turns when the first one succeeded; a ship that started on the board
\* is never obstructed on the way back.
C16_RoundTrip ==
    /\ [](MovedAlive /\ turn.actions \in {<<"M", "L", "L", "M">>, <<"M", "R", "R", "M">>} =>
            /\ InBounds(Start) => result.type = "MovedShip"
            /\ result.type = "MovedShip" =>
                  /\ <<result.args[4], result.args[5]>> = Start
                  /\ result.args[6] = Opposite[prev[Start][1]]
                  /\ board = [prev EXCEPT ![Start] = <<Opposite[prev[Start][1]], TRUE>>])
    /\ [][(/\ IsMove
           /\ turn.actions = <<"M">>
           /\ result.type = "MovedShip"
           /\ turn'.actions \in {<<"L", "L", "M">>, <<"R", "R", "M">>}
           /\ <<turn'.ship_x, turn'.ship_y>> = <<result.args[4], result.args[5]>>) =>
              /\ InBounds(Start) => result'.type = "MovedShip"
              /\ result'.type = "MovedShip" =>
                    /\ <<result'.args[4], result'.args[5]>> = Start
                    /\ result'.args[6] = Opposite[prev[Start][1]]
                    /\ board' = [prev EXCEPT ![Start] = <<Opposite[prev[Start][1]], TRUE>>]]_vars

\* a ship next to a sunk ship advanced in the first turn and came back in
\* the second
C16_Witness ==
    /\ HalfTurnBack
    /\ turn_number = 2
    /\ result.type = "MovedShip"
    /\ \E l \in DOMAIN prev : l # Start /\ ~prev[l][2]

\* the line of the file has been read
WasRead == turn # NoTurn \/ status = "raised"

\* the characters of s that are not whitespace are a run of the class,
\* with at least min of them
IsPadded(s, class, min) ==
    LET solid == {k \in 1 .. Len(s) : s[k] \notin Whitespace}
    IN  /\ Cardinality(solid) >= min
        /\ \A k \in solid : s[k] \in class
        /\ \A p \in solid : \A q \in solid : \A k \in p .. q : k \in solid

Positions(l, c) == {k \in 1 .. Len(l) : l[k] = c}

\* the turn grammar: "(", a number, ",", a number, ")" and a run of action
\* letters, with whitespace allowed around the brackets, the comma and the
\* numbers, and nothing else on the line
Grammar(l) ==
    /\ Cardinality(Positions(l, "(")) = 1
    /\ Cardinality(Positions(l, ",")) = 1
    /\ Cardinality(Positions(l, ")")) = 1
    /\ LET a == CHOOSE k \in Positions(l, "(") : TRUE
           b == CHOOSE k \in Positions(l, ",") : TRUE
           c == CHOOSE k \in Positions(l, ")") : TRUE
       IN  /\ a < b
           /\ b < c
           /\ \A k \in 1 .. a - 1 : l[k] \in Whitespace
           /\ IsPadded(SubSeq(l, a + 1, b - 1), Digit, 1)
           /\ IsPadded(SubSeq(l, b + 1, c - 1), Digit, 1)
           /\ IsPadded(SubSeq(l, c + 1, Len(l)), ActionLetters, 0)

\* the line without any whitespace
Squeeze(l) == SelectSeq(l, LAMBDA c : c \notin Whitespace)

\* the turn "(X,Y)A" stands for: read off a line of the grammar by its
\* delimiters
Command(l) ==
    LET s == Squeeze(l)
        b == CHOOSE k \in Positions(s, ",") : TRUE
        c == CHOOSE k \in Positions(s, ")") : TRUE
        X == int(SubSeq(s, 2, b - 1))
        Y == int(SubSeq(s, b + 1, c - 1))
        A == SubSeq(s, c + 1, Len(s))
    IN  IF A # <<>>
        THEN [type |-> "MovementTurn", ship_x |-> X, ship_y |-> Y, actions |-> A]
        ELSE [type |-> "ShootingTurn", target_x |-> X, target_y |-> Y]

\* C17: make_turn_from_line fails for every line that does not match the
\* turn grammar (a malformed bracket, a coordinate that is not a number,
\* characters after the close parenthesis that are not L, R or M): no turn
\* comes out of such a line.
C17_MalformedLineFails ==
    (WasRead /\ ~Grammar(line)) =>
        /\ result.kind = "raise"
        /\ result.type = "AttributeError"
        /\ turn = NoTurn

\* C18: a line "(X,Y)A" with whitespace around "(", around the comma,
\* before ")" and between ")" and A parses to MovementTurn(X, Y, A) with
\* the letters of A in order when A is not empty, and to ShootingTurn(X, Y)
\* when A is empty, whatever the whitespace.
C18_WhitespaceInsensitive ==
    (WasRead /\ Grammar(line)) => turn = Command(line)

\* the line "  (  10  ,  01  )  LM" was read as MovementTurn(10, 1, "LM")
C18_Witness ==
    /\ WasRead
    /\ Grammar(line)
    /\ Len(line) = Len(Squeeze(line)) + 6 * MaxSpace
    /\ turn = [type |-> "MovementTurn", ship_x |-> 10, ship_y |-> 1,
               actions |-> <<"L", "M">>]

\* C19: the fleet keeps its size through every turn that succeeds: a shot
\* leaves the keys of the board as they were, and a successful move takes
\* the key of the ship out and puts one key in, which no other ship holds;
\* prev being the board before the turn, a run of successful turns ends
\* with as many entries as the initial board.
C19_FleetSizeConserved ==
    result.kind = "action" =>
        /\ Cardinality(DOMAIN board) = Cardinality(DOMAIN prev)
        /\ IsShot => DOMAIN board = DOMAIN prev
        /\ IsMove =>
              /\ Start \in DOMAIN prev
              /\ <<result.args[4], result.args[5]>> \notin (DOMAIN prev) \ {Start}
              /\ DOMAIN board =
                    ((DOMAIN prev) \ {Start}) \cup {<<result.args[4], result.args[5]>>}

\* two turns succeeded, the second one moved a ship of a fleet of MaxShips
\* to another cell
C19_Witness ==
    /\ turn_number = 2
    /\ IsMove
    /\ result.type = "MovedShip"
    /\ <<result.args[4], result.args[5]>> # Start
    /\ Cardinality(DOMAIN prev) = MaxShips
    /\ Cardinality(DOMAIN board) = MaxShips

\* C20: a MovementTurn that raises NoShipAtLocation or MovingSunkShip leaves
\* the board as it was before the turn, while one that raises
\* MoveOutsideBoard or ShipAtMoveTarget does not.
C20_EarlyFailureKeepsBoard ==
    (IsMove /\ result.kind = "raise") =>
        /\ result.type \in {"NoShipAtLocation", "MovingSunkShip"} => board = prev
        /\ result.type \in {"MoveOutsideBoard", "ShipAtMoveTarget"} => board # prev

\* the second turn of a run ordered a sunk ship of a fleet of two to move:
\* the board still holds it as it was
C20_Witness ==
    /\ IsMove
    /\ turn_number = 1
    /\ result.type = "MovingSunkShip"
    /\ Start \in DOMAIN board
    /\ board[Start] = prev[Start]
    /\ Cardinality(DOMAIN board) = 2

====
